---- MODULE Spec2Model ----
(***************************************************************************)
(* Model of supersetapiclient/client.py: class SupersetClient.             *)
(*                                                                         *)
(* The client is single-threaded and blocking.  Every HTTP exchange is     *)
(* split in two steps: the client puts a request on the wire, then the     *)
(* server's answer (drawn from a small set) is delivered and the code      *)
(* that follows the blocking call runs up to the next HTTP exchange.       *)
(*                                                                         *)
(* requests / requests_oauthlib behaviour the code relies on:              *)
(*  - Session.request prepares the request with the session's hooks        *)
(*    merged in, so PreparedRequest.hooks holds token_refresher;           *)
(*  - Session.send(request) dispatches request.hooks['response'] on the    *)
(*    response it received, and returns what the hooks returned;           *)
(*  - OAuth2Session.request adds "Authorization: Bearer <access_token>"    *)
(*    of its current token; Session.send adds nothing;                     *)
(*  - Response.raise_for_status raises HTTPError for 400 <= status < 600.  *)
(***************************************************************************)
EXTENDS Integers, Sequences, FiniteSets, TLC

\* ------------------------------------------------------------------ bounds
\* Largest number of requests the model puts on the wire.
MaxWire == 6

\* Longest path segment given to join_urls, in characters.
MaxSegLen == 3

\* Largest number of segments given to join_urls.
MaxArgs == 3

\* Longest password, in characters.
MaxPasswordLen == 4

\* ------------------------------------------------------- values and bodies
\* A key that is missing from a dict / a header that is not set.
Absent == 0

\* Python's None, as a value distinct from every string.
PyNone == "<None>"

\* The expiry marker compared against at line 135.
ExpiryMarker == "Token has expired"

\* f"{value}" (line 215): None is rendered as the text "None".
Format(v) == IF v = PyNone THEN "None" ELSE v

\* HTTP status codes the server answers with.
Statuses == {200, 401, 500}

\* Response bodies: undecodable text, a JSON value that is no object
\* (a list, a string, null), or a JSON object with optional "msg" and
\* "result" members ("" marks a member that is missing).
Bodies ==
    { [kind |-> "notjson",   msg |-> "", result |-> ""],
      [kind |-> "nonobject", msg |-> "", result |-> ""],
      [kind |-> "object",    msg |-> ExpiryMarker, result |-> ""],
      [kind |-> "object",    msg |-> "Invalid credentials", result |-> ""],
      [kind |-> "object",    msg |-> "", result |-> "csrf-1"],
      [kind |-> "object",    msg |-> "", result |-> ""] }

\* Answers of the SQL endpoint: JSON objects with columns and data, and
\* with optional displayLimitReached ("" when missing) and displayLimit
\* (Absent when missing).  The data of a truncated result is marked.
SqlBodies ==
    { [kind |-> "object", msg |-> "", result |-> "",
       reached |-> "true", limit |-> 1000,
       columns |-> "columns", data |-> "truncated rows"],
      [kind |-> "object", msg |-> "", result |-> "",
       reached |-> "true", limit |-> Absent,
       columns |-> "columns", data |-> "truncated rows"],
      [kind |-> "object", msg |-> "", result |-> "",
       reached |-> "false", limit |-> 1000,
       columns |-> "columns", data |-> "all rows"],
      [kind |-> "object", msg |-> "", result |-> "",
       reached |-> "", limit |-> Absent,
       columns |-> "columns", data |-> "all rows"] }

NoBody == [kind |-> "none", msg |-> "", result |-> ""]

\* No response at all (placeholder in records).
NoResponse == [id |-> 0, status |-> 0, body |-> NoBody]

\* dict.get(key): the member, or None when it is missing.
JsonGet(body, key) ==
    LET v == IF key = "msg" THEN body.msg ELSE body.result
    IN  IF v = "" THEN PyNone ELSE v

\* Response.raise_for_status(): TRUE when it raises HTTPError.
raise_for_status(status) == 400 <= status /\ status < 600

\* ------------------------------------------------------------------- state
VARIABLES
    pc,          \* where the client is: "start", "login", "await",
                 \* "refresh", "idle", "failed"
    verify,      \* self.verify
    token,       \* self.session.token (self._token), NoToken before login
    csrf_token,  \* self._csrf_token
    kind,        \* operation whose session request is in flight
    request,     \* the PreparedRequest in flight on the session (r.request)
    stack,       \* responses held by the suspended token_refresher frames
    wire,        \* every request sent so far, in order
    outcome,     \* how the last session call ended, as its caller sees it
    lastHook,    \* the last token_refresher invocation and what it did
    reply,       \* the last answer to a login or refresh call
    minted,      \* last token value the server has issued
    nRefresh,    \* refresh calls made during the current session call
    nResend,     \* resends made during the current session call
    run_result,  \* how the last run() ended: its return value or exception
    args,        \* the segments join_urls is called with
    joined,      \* what join_urls(*args) gave
    password_,   \* self._password
    shown        \* what the password property gave

vars == << pc, verify, token, csrf_token, kind, request, stack, wire,
           outcome, lastHook, reply, minted, nRefresh, nResend, run_result,
           args, joined, password_, shown >>

\* The variables of the two pure helpers, which no request touches.
pure == << args, joined, password_, shown >>

NoToken == [access_token |-> Absent, refresh_token |-> Absent]

NoRequest == [ep |-> "none", method |-> "none", auth |-> Absent,
              xcsrf |-> "", referer |-> FALSE]

NoOutcome == [how |-> "none", exc |-> "", resp |-> NoResponse]

NoRun == [how |-> "none", exc |-> "", limit |-> Absent,
          columns |-> "", data |-> ""]

NoHook == [r |-> NoResponse, did |-> "none", ret |-> NoResponse]

NoReply == [ep |-> "none", status |-> 0,
            access_token |-> Absent, refresh_token |-> Absent]

\* The answer of the login or refresh endpoint: an error status carries no
\* tokens; a success carries a fresh access token and, when the server
\* sends one, a fresh refresh token.
TokenReply(ep, status, with_refresh) ==
    IF 200 <= status /\ status < 300
    THEN [ep |-> ep, status |-> status, access_token |-> minted + 1,
          refresh_token |-> IF with_refresh THEN minted + 2 ELSE Absent]
    ELSE [ep |-> ep, status |-> status,
          access_token |-> Absent, refresh_token |-> Absent]

\* response.json() of a login or refresh answer: the token dict.
TokenOf(rep) ==
    [access_token |-> rep.access_token, refresh_token |-> rep.refresh_token]

\* A response the server gives to the request sent last.
Response(status, body) == [id |-> Len(wire), status |-> status, body |-> body]

\* A request as it goes on the wire.
Sent(req, v, via) ==
    [ep |-> req.ep, method |-> req.method, auth |-> req.auth,
     xcsrf |-> req.xcsrf, referer |-> req.referer, verify |-> v, via |-> via]

\* Variant of SessionRequest: the headers of self._headers are left out.
SessionRequest_bare(ep, method, tok, csrf) ==
    [ep |-> ep, method |-> method, auth |-> tok.access_token,
     xcsrf |-> "", referer |-> FALSE]

\* self._headers (lines 212-217) merged with the Authorization header that
\* OAuth2Session.request adds from the session's token.
SessionRequest(ep, method, tok, csrf) ==
    [ep |-> ep, method |-> method, auth |-> tok.access_token,
     xcsrf |-> Format(csrf), referer |-> TRUE]

\* A string is a sequence of characters; NoValue marks a helper that has
\* not been called.
NoValue == [how |-> "none", value |-> << >>]

Returned(v) == [how |-> "return", value |-> v]

Raised(exc) == [how |-> "raise", value |-> << exc >>]

\* The client before construction starts, helpers aside.
Unconstructed ==
    /\ pc = "start"
    /\ token = NoToken
    /\ csrf_token = PyNone
    /\ kind = "none"
    /\ request = NoRequest
    /\ stack = << >>
    /\ wire = << >>
    /\ outcome = NoOutcome
    /\ lastHook = NoHook
    /\ reply = NoReply
    /\ minted = 0
    /\ nRefresh = 0
    /\ nResend = 0
    /\ run_result = NoRun

Init ==
    /\ args = << >>
    /\ joined = NoValue
    /\ password_ = << >>
    /\ shown = NoValue
    /\ pc = "start"
    /\ verify \in BOOLEAN
    /\ token = NoToken
    /\ csrf_token = PyNone
    /\ kind = "none"
    /\ request = NoRequest
    /\ stack = << >>
    /\ wire = << >>
    /\ outcome = NoOutcome
    /\ lastHook = NoHook
    /\ reply = NoReply
    /\ minted = 0
    /\ nRefresh = 0
    /\ nResend = 0
    /\ run_result = NoRun

\* ---------------------------------------------------------- token_refresher
\* Variant of IsUnauthorized: every error status is taken for an auth failure.
IsUnauthorized_anyError(status) == status >= 400

\* Line 128: the hook only looks further at a 401.
IsUnauthorized(status) == status = 401

\* Line 135: the body's msg is the expiry marker.
HasExpired(msg) == msg = ExpiryMarker

\* Variant of RefreshBearer: the refresh token is read from self._token, the
\* login answer (whose refresh token is the second value the server issued),
\* not from the session's live pair.
RefreshBearer_fromLogin(refresh_token) == 2

\* Lines 137-138: the bearer credential of the refresh call.
RefreshBearer(refresh_token) == refresh_token

\* Variant of MergeToken: the pair is taken as the server sent it.
MergeToken_asSent(new_token, refresh_token) == new_token

\* Lines 146-148: the new pair; the old refresh token fills a missing one.
MergeToken(new_token, refresh_token) ==
    IF new_token.refresh_token = Absent
    THEN [new_token EXCEPT !.refresh_token = refresh_token]
    ELSE new_token

\* Variant of ReplaceToken: only the refresh token is stored, the access
\* token of the live pair stays.
ReplaceToken_refreshOnly(old_token, new_token) ==
    [old_token EXCEPT !.refresh_token = new_token.refresh_token]

\* Variant of ReplaceToken: the session keeps the pair it had.
ReplaceToken_keepOld(old_token, new_token) == old_token

\* Line 149: self.session.token = new_token.
ReplaceToken(old_token, new_token) == new_token

\* Variant of Bearer: the header is built from the pair being replaced.
Bearer_stale(old_token, new_token) == old_token.access_token

\* Lines 152-153: the Authorization header written on r.request.
Bearer(old_token, new_token) == new_token.access_token

\* Line 155: verify of the resend.
ResendVerify(v) == FALSE

\* Lines 141-143: verify of the refresh call (the throwaway session's
\* default, nothing is passed).
RefreshVerify(v) == TRUE

\* Line 155: the hook returns what session.send returned, and so does every
\* suspended frame below it.
HookResult(frames, sent) == sent

\* Variant of RefreshFailed: the status of the refresh answer is not looked at.
RefreshFailed_unchecked(status) == FALSE

\* Line 144: refresh_r.raise_for_status().
RefreshFailed(status) == raise_for_status(status)

\* Variant of LoginFailed: the status of the login answer is not looked at.
LoginFailed_unchecked(status) == FALSE

\* Line 123: response.raise_for_status().
LoginFailed(status) == raise_for_status(status)

\* Line 54: csrf_response.raise_for_status().
CsrfFailed(status) == raise_for_status(status)

\* Variant of DisplayLimitReached: the flag is not looked at.
DisplayLimitReached_ignored(result) == FALSE

\* Lines 181-182: result.get("displayLimitReached", False) is true.
DisplayLimitReached(result) ==
    "reached" \in DOMAIN result /\ result.reached = "true"

\* Line 180: result.get("displayLimit", None).
DisplayLimit(result) ==
    IF "limit" \in DOMAIN result THEN result.limit ELSE Absent

\* Lines 178-190: what run() does with the response self.post returned.
RunResult(r) ==
    IF raise_for_status(r.status)
    THEN [NoRun EXCEPT !.how = "raise", !.exc = "HTTPError"]
    ELSE IF r.body.kind = "notjson"
    THEN [NoRun EXCEPT !.how = "raise", !.exc = "JSONDecodeError"]
    ELSE IF r.body.kind = "nonobject"
    THEN [NoRun EXCEPT !.how = "raise", !.exc = "AttributeError"]
    ELSE IF DisplayLimitReached(r.body)
    THEN [NoRun EXCEPT !.how = "raise", !.exc = "QueryLimitReached",
                       !.limit = DisplayLimit(r.body)]
    ELSE IF "columns" \notin DOMAIN r.body
    THEN [NoRun EXCEPT !.how = "raise", !.exc = "KeyError"]
    ELSE [NoRun EXCEPT !.how = "return", !.columns = r.body.columns,
                       !.data = r.body.data]

\* The session call returns r to its caller; lines 54-55 follow when the
\* caller is the constructor's CSRF fetch, lines 178-190 when it is run().
Deliver(r) ==
    /\ outcome' = [how |-> "return", exc |-> "", resp |-> r]
    /\ stack' = << >>
    /\ run_result' = IF kind = "run" THEN RunResult(r) ELSE run_result
    /\ IF kind = "csrf"
       THEN IF CsrfFailed(r.status) \/ r.body.kind # "object"
            THEN pc' = "failed" /\ UNCHANGED csrf_token
            ELSE pc' = "idle" /\ csrf_token' = JsonGet(r.body, "result")
       ELSE pc' = "idle" /\ UNCHANGED csrf_token

\* An exception leaves the hook and session.send; the constructor does not
\* catch it, so no client exists when it was fetching the CSRF token.
Propagate(exc) ==
    /\ outcome' = [how |-> "raise", exc |-> exc, resp |-> NoResponse]
    /\ stack' = << >>
    /\ run_result' = IF kind = "run"
                     THEN [NoRun EXCEPT !.how = "raise", !.exc = exc]
                     ELSE run_result
    /\ pc' = IF kind = "csrf" THEN "failed" ELSE "idle"
    /\ UNCHANGED csrf_token

\* Lines 134, 136, 156: return r.
HookReturns(r) ==
    /\ lastHook' = [r |-> r, did |-> "return", ret |-> r]
    /\ Deliver(HookResult(stack, r))
    /\ UNCHANGED << verify, token, kind, request, wire, reply, minted,
                    nRefresh, nResend >>

\* Line 132 on a JSON value without .get, line 137 on a pair without
\* refresh token.
HookRaises(r, exc) ==
    /\ lastHook' = [r |-> r, did |-> "raise", ret |-> NoResponse]
    /\ Propagate(exc)
    /\ UNCHANGED << verify, token, kind, request, wire, reply, minted,
                    nRefresh, nResend >>

\* Lines 137-143: the refresh call goes out on a throwaway session.
HookRefreshes(r) ==
    /\ Len(wire) < MaxWire
    /\ lastHook' = [r |-> r, did |-> "refresh", ret |-> NoResponse]
    /\ stack' = Append(stack, [r |-> r, refresh_token |-> token.refresh_token])
    /\ wire' = Append(wire,
                 [ep |-> "refresh", method |-> "POST",
                  auth |-> RefreshBearer(token.refresh_token),
                  xcsrf |-> "", referer |-> FALSE,
                  verify |-> RefreshVerify(verify), via |-> "tmp"])
    /\ nRefresh' = nRefresh + 1
    /\ pc' = "refresh"
    /\ UNCHANGED << verify, token, csrf_token, kind, request, outcome,
                    reply, minted, nResend, run_result >>

\* Lines 126-143 and 156: the hook on response r, up to its refresh call.
token_refresher(r) ==
    IF ~IsUnauthorized(r.status) THEN HookReturns(r)
    ELSE IF r.body.kind = "notjson" THEN HookReturns(r)
    ELSE IF r.body.kind = "nonobject" THEN HookRaises(r, "AttributeError")
    ELSE IF ~HasExpired(JsonGet(r.body, "msg")) THEN HookReturns(r)
    ELSE IF token.refresh_token = Absent THEN HookRaises(r, "KeyError")
    ELSE HookRefreshes(r)

\* The server answers the session request in flight; Session.send
\* dispatches request.hooks, that is token_refresher.  Only the SQL
\* endpoint answers with a result set.
Respond(status, body) ==
    /\ pc = "await"
    /\ UNCHANGED pure
    /\ body \in SqlBodies => kind = "run"
    /\ token_refresher(Response(status, body))

\* Lines 144-155: the refresh call is answered; on success the pair is
\* replaced, the header rewritten and the request resent (the server grants
\* no refresh once MaxWire requests have been sent).
RefreshRespond(status, rotate) ==
    /\ pc = "refresh"
    /\ UNCHANGED pure
    /\ RefreshFailed(status) \/ Len(wire) < MaxWire
    /\ reply' = TokenReply("refresh", status, rotate)
    /\ minted' = minted + 2
    /\ IF RefreshFailed(status)
       THEN /\ Propagate("HTTPError")
            /\ UNCHANGED << verify, token, kind, request, wire, lastHook,
                            nRefresh, nResend >>
       ELSE LET refresh_token == stack[Len(stack)].refresh_token
                new_token == MergeToken(TokenOf(reply'), refresh_token)
            IN  /\ token' = ReplaceToken(token, new_token)
                /\ request' = [request EXCEPT
                                   !.auth = Bearer(token, new_token)]
                /\ wire' = Append(wire,
                             Sent(request', ResendVerify(verify), "resend"))
                /\ nResend' = nResend + 1
                /\ pc' = "await"
                /\ UNCHANGED << verify, csrf_token, kind, stack, outcome,
                                lastHook, nRefresh, run_result >>

\* ------------------------------------------------------------ construction
\* Lines 109-122: authenticate() posts the credentials, outside any session.
authenticate ==
    /\ pc = "start"
    /\ UNCHANGED pure
    /\ wire' = Append(wire,
                 [ep |-> "login", method |-> "POST", auth |-> Absent,
                  xcsrf |-> "", referer |-> FALSE, verify |-> verify,
                  via |-> "plain"])
    /\ pc' = "login"
    /\ UNCHANGED << verify, token, csrf_token, kind, request, stack,
                    outcome, lastHook, reply, minted, nRefresh, nResend,
                    run_result >>

\* Lines 123-124 and 43-53: the login answer; on success the session is
\* built with the pair, the hook installed and the CSRF token requested.
LoginRespond(status, with_refresh) ==
    /\ pc = "login"
    /\ UNCHANGED pure
    /\ reply' = TokenReply("login", status, with_refresh)
    /\ minted' = minted + 2
    /\ IF LoginFailed(status)
       THEN /\ pc' = "failed"
            /\ outcome' = [how |-> "raise", exc |-> "HTTPError",
                           resp |-> NoResponse]
            /\ UNCHANGED << verify, token, csrf_token, kind, request,
                            stack, wire, lastHook, nRefresh, nResend,
                            run_result >>
       ELSE /\ token' = TokenOf(reply')
            /\ csrf_token' = PyNone
            /\ kind' = "csrf"
            /\ request' = SessionRequest("csrf", "GET", token', csrf_token')
            /\ wire' = Append(wire, Sent(request', verify, "direct"))
            /\ pc' = "await"
            /\ nRefresh' = 0
            /\ nResend' = 0
            /\ UNCHANGED << verify, stack, outcome, lastHook, run_result >>

\* ------------------------------------------------------- bound partials
\* Variant of SessionCall: the call first fetches the CSRF token again.
SessionCall_refetchCsrf(method) ==
    /\ pc = "idle"
    /\ UNCHANGED pure
    /\ Len(wire) < MaxWire
    /\ kind' = method
    /\ request' = SessionRequest("csrf", "GET", token, csrf_token)
    /\ wire' = Append(wire, Sent(request', verify, "direct"))
    /\ pc' = "await"
    /\ nRefresh' = 0
    /\ nResend' = 0
    /\ outcome' = NoOutcome
    /\ lastHook' = NoHook
    /\ run_result' = NoRun
    /\ UNCHANGED << verify, token, csrf_token, stack, reply, minted >>

\* Lines 63-82: self.get / post / put / delete are session methods with
\* headers=self._headers and verify=self.verify bound in.
SessionCall(method) ==
    /\ pc = "idle"
    /\ UNCHANGED pure
    /\ Len(wire) < MaxWire
    /\ kind' = method
    /\ request' = SessionRequest("api", method, token, csrf_token)
    /\ wire' = Append(wire, Sent(request', verify, "direct"))
    /\ pc' = "await"
    /\ nRefresh' = 0
    /\ nResend' = 0
    /\ outcome' = NoOutcome
    /\ lastHook' = NoHook
    /\ run_result' = NoRun
    /\ UNCHANGED << verify, token, csrf_token, stack, reply, minted >>

get == SessionCall("GET")

post == SessionCall("POST")

put == SessionCall("PUT")

delete == SessionCall("DELETE")

\* Lines 171-177: run() posts the query to the SQL endpoint through
\* self.post (the payload plays no part in what follows).
run ==
    /\ pc = "idle"
    /\ UNCHANGED pure
    /\ Len(wire) < MaxWire
    /\ kind' = "run"
    /\ request' = SessionRequest("sql", "POST", token, csrf_token)
    /\ wire' = Append(wire, Sent(request', verify, "direct"))
    /\ pc' = "await"
    /\ nRefresh' = 0
    /\ nResend' = 0
    /\ outcome' = NoOutcome
    /\ lastHook' = NoHook
    /\ run_result' = NoRun
    /\ UNCHANGED << verify, token, csrf_token, stack, reply, minted >>

Next ==
    \/ authenticate
    \/ \E status \in Statuses, with_refresh \in BOOLEAN :
          LoginRespond(status, with_refresh)
    \/ \E status \in Statuses, body \in Bodies \cup SqlBodies :
          Respond(status, body)
    \/ \E status \in Statuses, rotate \in BOOLEAN :
          RefreshRespond(status, rotate)
    \/ get
    \/ post
    \/ put
    \/ delete
    \/ run

Spec == Init /\ [][Next]_vars

\* ----------------------------------------------------------------- join_urls
\* "/".join(urls), line 107.
RECURSIVE SlashJoin(_)
SlashJoin(urls) ==
    IF urls = << >> THEN << >>
    ELSE IF Len(urls) = 1 THEN urls[1]
    ELSE urls[1] \o << "/" >> \o SlashJoin(Tail(urls))

\* Lines 102-105 for one argument u: a leading slash is dropped when lead
\* holds, then a trailing slash when trail holds; u[0] and u[-1] raise
\* IndexError on an empty string.
Strip(u, lead, trail) ==
    IF u = << >> THEN Raised("IndexError")
    ELSE LET u1 == IF Head(u) = "/" /\ lead THEN Tail(u) ELSE u
         IN  IF u1 = << >> THEN Raised("IndexError")
             ELSE IF u1[Len(u1)] = "/" /\ trail
                  THEN Returned(SubSeq(u1, 1, Len(u1) - 1))
                  ELSE Returned(u1)

\* Lines 98-107: the loop raises when one argument does, and otherwise the
\* stripped arguments are joined.
JoinStripped(segs) ==
    IF \E i \in 1..Len(segs) : segs[i].how = "raise"
    THEN Raised("IndexError")
    ELSE Returned(SlashJoin([i \in 1..Len(segs) |-> segs[i].value]))

\* Variant of join_urls: the last argument loses its trailing slash too.
join_urls_stripLast(a) ==
    JoinStripped([i \in 1..Len(a) |-> Strip(a[i], TRUE, TRUE)])

\* Variant of join_urls: only the first argument loses its leading slash.
join_urls_leadFirstOnly(a) ==
    JoinStripped([i \in 1..Len(a) |-> Strip(a[i], i = 1, i # Len(a))])

\* Lines 91-107: join_urls(*args); the trailing slash goes when
\* i != len(args).
join_urls(a) ==
    JoinStripped([i \in 1..Len(a) |-> Strip(a[i], TRUE, i # Len(a))])

\* Segments over a slash and one other character.
RECURSIVE StringsUpTo(_, _)
StringsUpTo(alphabet, n) ==
    IF n = 0 THEN { << >> }
    ELSE LET shorter == StringsUpTo(alphabet, n - 1)
         IN  shorter \cup
             { Append(t, c) : t \in shorter, c \in alphabet }

Segments == StringsUpTo({"/", "a"}, MaxSegLen) \ { << >> }

RECURSIVE ArgLists(_)
ArgLists(n) ==
    IF n = 0 THEN { << >> }
    ELSE LET shorter == ArgLists(n - 1)
         IN  shorter \cup
             { Append(l, u) : l \in { k \in shorter : Len(k) = n - 1 },
                              u \in Segments }

\* join_urls("http://host/", "/api/v1/"), each word one character.
ExampleArgs ==
    << << "http:", "/", "/", "host", "/" >>, << "/", "api", "/", "v1", "/" >> >>

InitJoin ==
    /\ Unconstructed
    /\ verify = TRUE
    /\ args \in (ArgLists(MaxArgs) \ { << >> }) \cup { ExampleArgs }
    /\ joined = NoValue
    /\ password_ = << >>
    /\ shown = NoValue

\* A call join_urls(*args).
JoinUrls ==
    /\ joined = NoValue
    /\ joined' = join_urls(args)
    /\ UNCHANGED << pc, verify, token, csrf_token, kind, request, stack,
                    wire, outcome, lastHook, reply, minted, nRefresh,
                    nResend, run_result, args, password_, shown >>

NextJoin == JoinUrls

SpecJoin == InitJoin /\ [][NextJoin]_vars

\* ------------------------------------------------------------------ password
\* Variant of password: the stored password is handed out.
password_cleartext(p) == p

\* Lines 192-194: "*" * len(self._password).
password(p) == [i \in 1..Len(p) |-> "*"]

Passwords == StringsUpTo({"a", "b", "*"}, MaxPasswordLen)

InitPassword ==
    /\ Unconstructed
    /\ verify = TRUE
    /\ args = << >>
    /\ joined = NoValue
    /\ password_ \in Passwords
    /\ shown = NoValue

\* A read of client.password.
ReadPassword ==
    /\ shown = NoValue
    /\ shown' = Returned(password(password_))
    /\ UNCHANGED << pc, verify, token, csrf_token, kind, request, stack,
                    wire, outcome, lastHook, reply, minted, nRefresh,
                    nResend, run_result, args, joined, password_ >>

NextPassword == ReadPassword

SpecPassword == InitPassword /\ [][NextPassword]_vars

\* ------------------------------------------------------------------ types
TypeOK ==
    /\ pc \in {"start", "login", "await", "refresh", "idle", "failed"}
    /\ verify \in BOOLEAN
    /\ Len(wire) <= MaxWire

\* ----------------------------------------------------------------- claims
\* A token_refresher invocation happens in this step.
HookRuns == lastHook' # lastHook /\ lastHook'.did # "none"

\* The refresh call is answered with success in this step.
RefreshSucceeds == pc = "refresh" /\ nResend' = nResend + 1

\* C1: within one session call at most one refresh call and at most one
\* resend are made, whatever the server answers.
C1_OneShotRetry == nRefresh <= 1 /\ nResend <= 1

\* C2: on a response whose status is not 401 the hook returns that response,
\* which is what the caller gets, and makes no refresh call, no resend and
\* no change to the token pair or to the request.
C2_Not401IsIdentity ==
    [][ (HookRuns /\ lastHook'.r.status # 401) =>
            /\ lastHook'.did = "return"
            /\ lastHook'.ret = lastHook'.r
            /\ outcome' = [how |-> "return", exc |-> "",
                           resp |-> lastHook'.r]
            /\ wire' = wire
            /\ token' = token
            /\ request' = request
            /\ nRefresh' = nRefresh
            /\ nResend' = nResend ]_vars

\* C2 witness: a 500 whose body carries the expiry marker came back as is.
C2_Witness ==
    /\ lastHook.did = "return"
    /\ lastHook.r.status = 500
    /\ lastHook.r.body.msg = ExpiryMarker
    /\ outcome.resp = lastHook.r

\* The body of a response carries the expiry marker.
CarriesMarker(body) == body.kind = "object" /\ body.msg = ExpiryMarker

\* C3: on a 401 whose body does not carry the expiry marker (other msg, no
\* msg, undecodable body) the hook returns that response unchanged.
C3_401WithoutMarkerIsIdentity ==
    (lastHook.did # "none" /\ lastHook.r.status = 401
        /\ ~CarriesMarker(lastHook.r.body))
    => (lastHook.did = "return" /\ lastHook.ret = lastHook.r)

\* C4: after a successful refresh the request is resent with the access
\* token of the new pair, which is not the one it was sent with before, and
\* a call that returns after a resend returns the answer to its last resend.
C4_ResendWithNewToken ==
    /\ [][ RefreshSucceeds =>
              /\ Len(wire') = Len(wire) + 1
              /\ wire'[Len(wire')].via = "resend"
              /\ wire'[Len(wire')].ep = request.ep
              /\ wire'[Len(wire')].method = request.method
              /\ wire'[Len(wire')].auth = reply'.access_token
              /\ wire'[Len(wire')].auth = token'.access_token
              /\ wire'[Len(wire')].auth # token.access_token
              /\ wire'[Len(wire')].auth # request.auth ]_vars
    /\ []( (outcome.how = "return" /\ nResend > 0) =>
              /\ outcome.resp.id = Len(wire)
              /\ wire[Len(wire)].via = "resend" )

\* C4 witness: a call returned a 200 that answers its resend.
C4_Witness ==
    /\ pc = "idle"
    /\ kind # "csrf"
    /\ nResend = 1
    /\ outcome.how = "return"
    /\ outcome.resp.status = 200
    /\ wire[outcome.resp.id].via = "resend"

\* C5: when a successful refresh answer has no refresh token the new pair
\* keeps the refresh token that was live before, and a session that has a
\* refresh token never loses it.
C5_RefreshTokenRetained ==
    [][ /\ (RefreshSucceeds /\ reply'.refresh_token = Absent) =>
              token'.refresh_token = token.refresh_token
        /\ token.refresh_token # Absent => token'.refresh_token # Absent
      ]_vars

\* C5 witness: two refreshes in a row without refresh token, the login's
\* refresh token still being the session's.
C5_Witness ==
    /\ nResend = 2
    /\ reply.ep = "refresh"
    /\ reply.refresh_token = Absent
    /\ token.refresh_token = 2
    /\ token.access_token > 2

\* C6: a successful refresh stores exactly the pair of the refresh answer
\* (with the old refresh token where the answer has none), the access token
\* always changes, nothing but login and refresh touches the pair, and the
\* session never holds a refresh token issued after its access token.
C6_WholesaleReplacement ==
    /\ [][ RefreshSucceeds =>
              /\ token'.access_token = reply'.access_token
              /\ token'.access_token # token.access_token
              /\ token'.refresh_token =
                     IF reply'.refresh_token = Absent
                     THEN token.refresh_token
                     ELSE reply'.refresh_token ]_vars
    /\ [][ (~RefreshSucceeds /\ pc # "login") => token' = token ]_vars
    /\ []( token.refresh_token <= token.access_token + 1 )

\* C6 witness: the session holds the pair of a refresh answer that rotated
\* the refresh token.
C6_Witness ==
    /\ pc = "await"
    /\ reply.ep = "refresh"
    /\ reply.refresh_token # Absent
    /\ token = TokenOf(reply)

\* The refresh call is answered with a non-2xx status in this step.
RefreshFails ==
    pc = "refresh" /\ reply'.ep = "refresh" /\ reply'.status \notin 200..299

\* C7: when the refresh call fails the hook raises, nothing is resent, the
\* request's headers and the session's token pair stay as they were.
C7_RefreshFailureRaises ==
    [][ RefreshFails =>
            /\ outcome'.how = "raise"
            /\ outcome'.exc = "HTTPError"
            /\ pc' # "await"
            /\ wire' = wire
            /\ request' = request
            /\ token' = token
            /\ nResend' = nResend ]_vars

\* C7 witness: a call of a constructed client ended with the HTTPError of a
\* failed refresh.
C7_Witness ==
    /\ pc = "idle"
    /\ kind # "csrf"
    /\ outcome.exc = "HTTPError"
    /\ reply.ep = "refresh"
    /\ reply.status = 500
    /\ nRefresh = 1
    /\ nResend = 0

\* The lifecycle state of the specification, read off the client's position.
SessionState ==
    CASE pc = "start" -> "Unauthenticated"
      [] pc = "login" -> "Authenticating"
      [] pc \in {"await", "idle"} -> "Authenticated"
      [] pc = "refresh" -> "Refreshing"
      [] OTHER -> "Failed"

\* The edges of the lifecycle (a request that is answered without refresh
\* stays in Authenticated).
LifecycleEdges ==
    { << "Unauthenticated", "Authenticating" >>,
      << "Authenticating", "Authenticated" >>,
      << "Authenticating", "Failed" >>,
      << "Authenticated", "Authenticated" >>,
      << "Authenticated", "Refreshing" >>,
      << "Authenticated", "Failed" >>,
      << "Refreshing", "Authenticated" >>,
      << "Refreshing", "Failed" >> }

\* The login call is answered with a non-2xx status in this step.
LoginFails == pc = "login" /\ reply'.status \notin 200..299

\* Some refresh call of this session has failed: it was not followed by
\* the resend.
RefreshHasFailed ==
    \E i \in 1..Len(wire) :
        /\ wire[i].ep = "refresh"
        /\ IF i = Len(wire) THEN pc # "refresh"
                            ELSE wire[i + 1].via # "resend"

\* C8 as stated: the lifecycle edges are followed, a failed login or refresh
\* leads to Failed, and once a refresh has failed the session sends nothing
\* any more.
C8_FailureIsTerminal ==
    [][ /\ << SessionState, SessionState' >> \in LifecycleEdges
        /\ (LoginFails \/ RefreshFails) => SessionState' = "Failed"
        /\ RefreshHasFailed => wire' = wire ]_vars

\* C8 amended: the lifecycle edges are followed; a failed login, and a
\* failed refresh while the constructor fetches the CSRF token, lead to
\* Failed, which no step leaves; a failed refresh on a constructed client
\* returns the session to Authenticated with its token pair unchanged.
C8_Lifecycle ==
    [][ /\ << SessionState, SessionState' >> \in LifecycleEdges
        /\ SessionState # "Failed"
        /\ LoginFails => SessionState' = "Failed"
        /\ (RefreshFails /\ kind = "csrf") => SessionState' = "Failed"
        /\ (RefreshFails /\ kind # "csrf") =>
              (pc' = "idle" /\ token' = token /\ csrf_token' = csrf_token)
      ]_vars

\* C8 witness: after a failed refresh the same session is refreshing again.
C8_Witness == RefreshHasFailed /\ pc = "refresh"

\* The constructor has returned: a client object exists.
Constructed ==
    \/ pc = "idle"
    \/ pc \in {"await", "refresh"} /\ kind # "csrf"

\* C9: a constructed client never has an absent CSRF token: the fetch failed
\* if the answer was non-2xx or had no "result".
C9_CsrfTokenNeverNone == Constructed => csrf_token # PyNone

\* Positions on the wire of the requests to the CSRF endpoint.
CsrfGets == { i \in 1..Len(wire) : wire[i].ep = "csrf" }

\* C10 as stated: at most one GET goes to the CSRF endpoint, exactly one
\* once login has succeeded, and it directly follows the login request.
C10_SingleCsrfGet ==
    /\ Cardinality(CsrfGets) <= 1
    /\ token # NoToken => Cardinality(CsrfGets) = 1
    /\ \A i \in CsrfGets : i = 2 /\ wire[1].ep = "login"

\* C10 amended: the constructor sends one GET to the CSRF endpoint right
\* after the successful login; any other GET to it is the resend that follows
\* a refresh during that fetch; nothing but login, refresh and CSRF requests
\* precedes them, and a constructed client sends none.
C10_CsrfOnlyDuringConstruction ==
    /\ []( token # NoToken =>
              (wire[2].ep = "csrf" /\ wire[2].via = "direct") )
    /\ []( \A i \in CsrfGets :
              /\ wire[1].ep = "login"
              /\ i = 2 \/ (wire[i].via = "resend" /\ wire[i - 1].ep = "refresh")
              /\ \A j \in 1..i : wire[j].ep \in {"login", "csrf", "refresh"} )
    /\ [][ (Constructed /\ Len(wire') > Len(wire)) =>
              wire'[Len(wire')].ep # "csrf" ]_vars

\* C10 witness: a client was constructed although its CSRF GET went out
\* twice, and it has sent a request of its own since.
C10_Witness ==
    /\ Constructed
    /\ Cardinality(CsrfGets) = 2
    /\ wire[Len(wire)].ep = "api"

\* Positions on the wire of the requests sent through the session.
SessionSends == { i \in 1..Len(wire) : wire[i].via \in {"direct", "resend"} }

\* C11 as stated: every request sent through the session carries the
\* session's CSRF token in X-CSRFToken and the Referer, and the request in
\* flight carries the session's current access token.
C11_AllHeaders ==
    /\ \A i \in SessionSends :
          wire[i].referer /\ wire[i].xcsrf = Format(csrf_token)
    /\ pc = "await" =>
          wire[Len(wire)].auth = token.access_token

\* C11 amended: every request sent through the session carries the Referer
\* and the access token current when it is sent; X-CSRFToken is the text of
\* the CSRF token at that time, which is "None" on the CSRF fetch and its
\* resends and the text of the stored token on every later request.
C11_HeadersAsBuilt ==
    /\ \A i \in SessionSends :
          /\ wire[i].referer
          /\ wire[i].auth # Absent
          /\ wire[i].xcsrf =
                IF wire[i].ep = "csrf" THEN "None" ELSE Format(csrf_token)
    /\ pc = "await" =>
          wire[Len(wire)].auth = token.access_token

\* C11 witness: a constructed client that fetched a CSRF token is resending
\* a request of its own with that token.
C11_Witness ==
    /\ pc = "await"
    /\ csrf_token = "csrf-1"
    /\ wire[2].xcsrf = "None"
    /\ wire[Len(wire)].via = "resend"
    /\ wire[Len(wire)].ep # "csrf"
    /\ wire[Len(wire)].xcsrf = "csrf-1"

\* C12: run() returns the columns and data of the answer when
\* displayLimitReached is false or missing, raises QueryLimitReached with
\* the answer's displayLimit when it is true, and never returns the rows of
\* a truncated result.
C12_RunFailsOnTruncation ==
    /\ run_result.data # "truncated rows"
    /\ (kind = "run" /\ outcome.how = "return"
          /\ outcome.resp.status = 200 /\ outcome.resp.body \in SqlBodies) =>
          IF outcome.resp.body.reached = "true"
          THEN /\ run_result.how = "raise"
               /\ run_result.exc = "QueryLimitReached"
               /\ run_result.limit = outcome.resp.body.limit
          ELSE /\ run_result.how = "return"
               /\ run_result.columns = outcome.resp.body.columns
               /\ run_result.data = outcome.resp.body.data

\* C12 witness: run() raised QueryLimitReached with the limit of an answer
\* that came after a token refresh.
C12_Witness ==
    /\ kind = "run"
    /\ nResend = 1
    /\ run_result.exc = "QueryLimitReached"
    /\ run_result.limit = 1000
    /\ outcome.resp.body.data = "truncated rows"

\* A request goes out through the session in this step.
SessionSendStep ==
    /\ Len(wire') = Len(wire) + 1
    /\ wire'[Len(wire')].via \in {"direct", "resend"}

\* C16: every refresh call carries as bearer credential the refresh token of
\* the pair the session holds when the 401 is intercepted, which is not its
\* access token, and leaves that pair alone.
C16_RefreshUsesLiveRefreshToken ==
    [][ nRefresh' = nRefresh + 1 =>
            /\ Len(wire') = Len(wire) + 1
            /\ wire'[Len(wire')].ep = "refresh"
            /\ wire'[Len(wire')].auth = token.refresh_token
            /\ wire'[Len(wire')].auth # Absent
            /\ wire'[Len(wire')].auth # token.access_token
            /\ token' = token ]_vars

\* C16 witness: the second refresh call of a request goes out with a refresh
\* token that an earlier refresh rotated in.
C16_Witness ==
    /\ pc = "refresh"
    /\ nRefresh = 2
    /\ token.refresh_token > 2
    /\ wire[Len(wire)].auth = token.refresh_token

\* C17: every request sent through the session carries the access token the
\* session holds after the step, and once the current access token has been
\* sent no later request carries another one.
C17_OldTokenNeverSentAgain ==
    /\ [][ SessionSendStep =>
              wire'[Len(wire')].auth = token'.access_token ]_vars
    /\ []( \A i, j \in SessionSends :
              (i < j /\ wire[i].auth = token.access_token) =>
                  wire[j].auth = token.access_token )

\* C17 witness: a new request of a client whose pair was refreshed goes out
\* with the new access token, the old one having been sent before.
C17_Witness ==
    /\ pc = "await"
    /\ nRefresh = 0
    /\ kind # "csrf"
    /\ wire[2].auth # token.access_token
    /\ wire[Len(wire)].via = "direct"
    /\ wire[Len(wire)].auth = token.access_token

\* Positions on the wire of the login requests.
Logins == { i \in 1..Len(wire) : wire[i].ep = "login" }

\* C18: a non-2xx login answer makes construction fail at once: nothing is
\* sent after the login request, no token pair is stored, the failed state
\* is never left, and at most one login request is ever sent.
C18_LoginFailureStops ==
    /\ [][ LoginFails =>
              /\ pc' = "failed"
              /\ outcome'.how = "raise"
              /\ wire' = wire
              /\ token' = NoToken ]_vars
    /\ [][ pc # "failed" ]_vars
    /\ []( Cardinality(Logins) <= 1 )
    /\ []( (reply.ep = "login" /\ reply.status \notin 200..299) =>
              /\ pc = "failed"
              /\ Len(wire) = 1
              /\ wire[1].ep = "login"
              /\ token = NoToken )

\* C18 witness: the login was answered 401 and construction has failed.
C18_Witness ==
    /\ pc = "failed"
    /\ reply.ep = "login"
    /\ reply.status = 401
    /\ Len(wire) = 1

\* C19: every request is sent with verify equal to the flag given at
\* construction.
C19_VerifyGovernsAll == \A i \in 1..Len(wire) : wire[i].verify = verify

\* ------------------------------------------------- claims about join_urls
JoinCalled == joined # NoValue

\* "http://host/api/v1", the result the example names.
ExampleWithoutSlash ==
    << "http:", "/", "/", "host", "/", "api", "/", "v1" >>

\* A segment without any of its leading slashes.
RECURSIVE LStrip(_)
LStrip(u) == IF u # << >> /\ Head(u) = "/" THEN LStrip(Tail(u)) ELSE u

\* A segment without any of its trailing slashes.
RECURSIVE RStrip(_)
RStrip(u) ==
    IF u # << >> /\ u[Len(u)] = "/" THEN RStrip(SubSeq(u, 1, Len(u) - 1))
    ELSE u

\* A segment that holds something besides slashes.
HasName(u) == LStrip(u) # << >>

\* A segment with at most one slash in front and at most one behind.
SingleSlashed(u) ==
    /\ HasName(u)
    /\ Len(u) - Len(LStrip(u)) <= 1
    /\ Len(u) - Len(RStrip(u)) <= 1

\* The names of the segments, with one slash between two of them.
OneSlashJoin(a) == SlashJoin([i \in 1..Len(a) |-> RStrip(LStrip(a[i]))])

\* The same, the last segment keeping the slashes behind it.
OneSlashJoinKeepingEnd(a) ==
    SlashJoin([i \in 1..Len(a) |->
                  IF i = Len(a) THEN LStrip(a[i]) ELSE RStrip(LStrip(a[i]))])

\* C13 as written: join_urls("http://host/", "/api/v1/") is
\* "http://host/api/v1", and whatever slashes two or more non-empty segments
\* carry in front and behind, the result is their names with exactly one
\* slash at each junction.
C13_OneSlashWhateverSlashes ==
    (JoinCalled /\ Len(args) >= 2 /\ \A i \in 1..Len(args) : HasName(args[i]))
        => /\ joined = Returned(OneSlashJoin(args))
           /\ args = ExampleArgs => joined = Returned(ExampleWithoutSlash)

\* C13, amended: join_urls("http://host/", "/api/v1/") is
\* "http://host/api/v1/", the last segment keeping its trailing slash; and
\* when every segment has at most one slash in front and at most one behind,
\* the result is the segments' names with exactly one slash at each junction,
\* followed by the last segment's trailing slash if it has one.
C13_OneSlashForSingleSlashed ==
    /\ (JoinCalled /\ args = ExampleArgs)
           => joined = Returned(Append(ExampleWithoutSlash, "/"))
    /\ (JoinCalled /\ \A i \in 1..Len(args) : SingleSlashed(args[i]))
           => /\ joined = Returned(OneSlashJoinKeepingEnd(args))
              /\ \A i \in 1..Len(args) :
                    LET name == RStrip(LStrip(args[i]))
                    IN  Head(name) # "/" /\ name[Len(name)] # "/"

\* The example has been joined to a string.
C13_Witness ==
    /\ joined.how = "return"
    /\ args = ExampleArgs

\* join_urls(join_urls(a, b), c); an exception of the inner call passes
\* through.
JoinLeft(a) ==
    LET inner == join_urls(<< a[1], a[2] >>)
    IN  IF inner.how = "raise" THEN inner
        ELSE join_urls(<< inner.value, a[3] >>)

\* join_urls(a, join_urls(b, c)); an exception of the inner call passes
\* through.
JoinRight(a) ==
    LET inner == join_urls(<< a[2], a[3] >>)
    IN  IF inner.how = "raise" THEN inner
        ELSE join_urls(<< a[1], inner.value >>)

\* C14 as written: for all non-empty segments a, b, c the two nestings of
\* join_urls give what join_urls(a, b, c) gives.
C14_Associative ==
    (JoinCalled /\ Len(args) = 3)
        => JoinLeft(args) = joined /\ JoinRight(args) = joined

\* A segment that begins with two slashes.
DoubleLead(u) == Len(u) >= 2 /\ u[1] = "/" /\ u[2] = "/"

\* C14, amended: for all non-empty segments a, b, c none of which begins
\* with two slashes, the two nestings of join_urls give what
\* join_urls(a, b, c) gives (the same string, or IndexError in all three).
C14_AssociativeWithoutDoubleLead ==
    (JoinCalled /\ Len(args) = 3 /\ \A i \in 1..3 : ~DoubleLead(args[i]))
        => JoinLeft(args) = joined /\ JoinRight(args) = joined

\* Three segments with slashes on both sides have been joined to a string.
C14_Witness ==
    /\ joined.how = "return"
    /\ Len(args) = 3
    /\ args[1] = << "a", "/" >>
    /\ args[2] = << "/", "a", "/" >>
    /\ args[3] = << "/", "a" >>

\* -------------------------------------------------- claims about password
PasswordRead == shown # NoValue

\* What the accessor gave is what it gives for every password of that length.
LengthOnly ==
    \A q \in Passwords :
        Len(q) = Len(password_) => Returned(password(q)) = shown

\* C15 as written: the accessor never returns the cleartext, and gives the
\* same for any two passwords of equal length.
C15_NeverCleartext ==
    PasswordRead => shown.value # password_ /\ LengthOnly

\* C15, amended: the accessor gives the same for any two passwords of equal
\* length, and returns the cleartext exactly when the password is made of
\* nothing but "*" characters (the empty password included).
C15_CleartextOnlyForStars ==
    PasswordRead =>
        /\ LengthOnly
        /\ shown.value = password_
              <=> \A i \in 1..Len(password_) : password_[i] = "*"

\* A password of letters and a "*" has been read through the accessor.
C15_Witness ==
    /\ PasswordRead
    /\ Len(password_) = 3
    /\ \E i, j \in 1..3 : password_[i] = "*" /\ password_[j] = "a"

====
